---------------------------- MODULE Spec2Model ----------------------------
(***************************************************************************)
(* A model of the dice-roller: the backtracking cursor (src/cursor.py),    *)
(* the recursive-descent parser and the AST evaluator                      *)
(* (src/dice_roller.py).                                                   *)
(*                                                                         *)
(* Text is a sequence of one-character strings; positions are 0-based as   *)
(* in the source, so the character at position p is contents[p + 1].       *)
(***************************************************************************)
EXTENDS Integers, Sequences, FiniteSets, TLC

VARIABLES
  contents,   \* cursor.__contents: the line the cursor scans
  pos,        \* cursor.__pos
  mark,       \* the value a caller holds from set_rollback(), -1 before any
  last,       \* the last cursor call: its name, argument, pre-position, outcome
  roller,     \* the REPL's `roller`: what expect_line returned
  result,     \* the REPL's `result`: what roller.roll() returned or raised
  prev,       \* the result of the roll before this one
  nrolls      \* how many times roller.roll() has been called

vars == <<contents, pos, mark, last, roller, result, prev, nrolls>>

-----------------------------------------------------------------------------
(* Bounds of the model.                                                    *)

MaxTokens == 3        \* tokens per enumerated parser line
MaxCursorTokens == 3  \* tokens per enumerated cursor text
MaxChain == 3         \* operands in an unparenthesised operator chain
MaxOutcomes == 16     \* lists of die faces one roll() may draw from
MaxRolls == 2         \* calls of roll() on one tree
MaxN == 3             \* the largest N of an enumerated top N / bottom N line

-----------------------------------------------------------------------------
(* Characters and strings.                                                 *)

Min(a, b) == IF a < b THEN a ELSE b

\* Python's s[a:b] for 0 <= a: the characters at positions a .. b-1 that exist.
Slice(s, a, b) == SubSeq(s, a + 1, Min(b, Len(s)))

\* str.isspace() for the ASCII characters the model writes.
IsSpace(c) == c \in {" ", "\t", "\n", "\r", "\f"}

Digits == <<"0", "1", "2", "3", "4", "5", "6", "7", "8", "9">>

DigitChars == {Digits[i] : i \in 1..10}

Letters ==
  {"a", "b", "c", "d", "e", "f", "g", "h", "i", "j", "k", "l", "m",
   "n", "o", "p", "q", "r", "s", "t", "u", "v", "w", "x", "y", "z",
   "A", "B", "C", "D", "E", "F", "G", "H", "I", "J", "K", "L", "M",
   "N", "O", "P", "Q", "R", "S", "T", "U", "V", "W", "X", "Y", "Z"}

\* set(string.ascii_letters + string.digits + '_')
identifier_chars == Letters \cup DigitChars \cup {"_"}

DigitValue(c) == (CHOOSE i \in 1..10 : Digits[i] = c) - 1

\* int(s) for a string of decimal digits.
RECURSIVE int(_)
int(s) ==
  IF Len(s) = 0 THEN 0
  ELSE 10 * int(SubSeq(s, 1, Len(s) - 1)) + DigitValue(s[Len(s)])

\* f"{n}" for an integer n >= 0.
RECURSIVE format_int(_)
format_int(n) ==
  IF n < 10 THEN <<Digits[n + 1]>>
  ELSE format_int(n \div 10) \o <<Digits[(n % 10) + 1]>>

-----------------------------------------------------------------------------
(* Values and outcomes of a call.                                          *)

None == [type |-> "None"]
Bool(b) == [type |-> "bool", b |-> b]
Str(s) == [type |-> "str", s |-> s]

\* A call that returned val and left the cursor at p.
Return(val, p) ==
  [res |-> "ok", val |-> val, pos |-> p, epos |-> -1, msg |-> ""]

\* cursor.create_parser_error(msg), raised: the error carries the position
\* the cursor has at that moment, and the cursor stays there.
ParserError(msg, p) ==
  [res |-> "ParserError", val |-> None, pos |-> p, epos |-> p, msg |-> msg]

\* An uncaught Python exception other than ParserError.
Fault(exc, p) ==
  [res |-> exc, val |-> None, pos |-> p, epos |-> -1, msg |-> ""]

-----------------------------------------------------------------------------
(* cursor (src/cursor.py).                                                 *)

RECURSIVE advance_to_non_whitespace(_, _)
advance_to_non_whitespace(text, p) ==
  IF p # Len(text) /\ IsSpace(text[p + 1])
  THEN advance_to_non_whitespace(text, p + 1)
  ELSE p

\* cursor.__init__: the position after construction.
cursor_init(text) == advance_to_non_whitespace(text, 0)

at_eof(text, p) == p = Len(text)

set_eof(text) == Len(text)

\* str.find('\n', p): the first position >= p holding a newline, or -1.
RECURSIVE find_newline(_, _)
find_newline(text, p) ==
  IF p >= Len(text) THEN -1
  ELSE IF text[p + 1] = "\n" THEN p
  ELSE find_newline(text, p + 1)

\* str.rstrip()
RECURSIVE rstrip(_)
rstrip(s) ==
  IF Len(s) > 0 /\ IsSpace(s[Len(s)]) THEN rstrip(SubSeq(s, 1, Len(s) - 1))
  ELSE s

\* read_to_newline that stops on the line break without skipping it.
read_to_newline_no_skip(text, p) ==
  LET eol == find_newline(text, p) IN
  IF eol = -1
  THEN Return(Str(rstrip(Slice(text, p, Len(text)))), Len(text))
  ELSE Return(Str(rstrip(Slice(text, p, eol))), eol)

read_to_newline(text, p) ==
  LET eol == find_newline(text, p) IN
  IF eol = -1
  THEN Return(Str(rstrip(Slice(text, p, Len(text)))), Len(text))
  ELSE Return(Str(rstrip(Slice(text, p, eol))),
              advance_to_non_whitespace(text, eol))

\* accept_keyword without the look at the character after the keyword.
accept_keyword_no_boundary(text, p, keyword) ==
  LET end_pos == p + Len(keyword) IN
  IF keyword = Slice(text, p, end_pos)
  THEN Return(Bool(TRUE), advance_to_non_whitespace(text, end_pos))
  ELSE Return(Bool(FALSE), p)

accept_keyword(text, p, keyword) ==
  LET end_pos == p + Len(keyword) IN
  IF keyword = Slice(text, p, end_pos)
  THEN IF end_pos >= Len(text)
       THEN Fault("IndexError", p)       \* self.__contents[end_pos]
       ELSE IF text[end_pos + 1] \in identifier_chars
            THEN Return(Bool(FALSE), p)
            ELSE Return(Bool(TRUE), advance_to_non_whitespace(text, end_pos))
  ELSE Return(Bool(FALSE), p)

accept_punctuation(text, p, string) ==
  LET end_pos == p + Len(string) IN
  IF string = Slice(text, p, end_pos)
  THEN Return(Bool(TRUE), advance_to_non_whitespace(text, end_pos))
  ELSE Return(Bool(FALSE), p)

\* The end of the longest run of decimal digits starting at p.
RECURSIVE digits_end(_, _)
digits_end(text, p) ==
  IF p < Len(text) /\ text[p + 1] \in DigitChars
  THEN digits_end(text, p + 1)
  ELSE p

\* The pattern [0-9]+ in the place of int_regex.
int_regex_any_digit(text, p) ==
  IF p < Len(text) /\ text[p + 1] \in DigitChars
  THEN digits_end(text, p + 1)
  ELSE -1

\* int_regex.match(text, pos=p) for [1-9][0-9]*: m.end(), or -1 for no match.
int_regex(text, p) ==
  IF p < Len(text) /\ text[p + 1] \in (DigitChars \ {"0"})
  THEN digits_end(text, p + 1)
  ELSE -1

\* regex.match(text, pos=p): m.end(), or -1 for no match.  A compiled pattern
\* is modelled by its name.
regex_match(regex, text, p) ==
  CASE regex = "int_regex" -> int_regex(text, p)

Match(start, end) == [type |-> "Match", start |-> start, end |-> end]

match_substr(text, match) == Slice(text, match.start, match.end)

accept_regex(text, p, regex) ==
  LET m == regex_match(regex, text, p) IN
  IF m = -1 THEN Return(None, p)
  ELSE Return(Match(p, m), advance_to_non_whitespace(text, m))

accept_regex_str(text, p, regex) ==
  LET match == accept_regex(text, p, regex) IN
  IF match.val = None THEN Return(None, match.pos)
  ELSE Return(Str(match_substr(text, match.val)), match.pos)

expect_keyword(text, p, string) ==
  LET r == accept_keyword(text, p, string) IN
  IF r.res # "ok" THEN r
  ELSE IF ~r.val.b THEN ParserError("expected keyword", r.pos)
  ELSE Return(None, r.pos)

expect_punctuation(text, p, string) ==
  LET r == accept_punctuation(text, p, string) IN
  IF ~r.val.b THEN ParserError("expected punctuation", r.pos)
  ELSE Return(None, r.pos)

expect_regex(text, p, regex, description) ==
  LET match == accept_regex(text, p, regex) IN
  IF match.val = None THEN ParserError(description, match.pos)
  ELSE match

expect_regex_str(text, p, regex, description) ==
  LET match == expect_regex(text, p, regex, description) IN
  IF match.res # "ok" THEN match
  ELSE Return(Str(match_substr(text, match.val)), match.pos)

set_rollback(p) == p

rollback_to(p) == p

\* A decorator that never restores the position.
rollback_if_false_never(rollback, r) == r

\* The decorator: what the wrapped method's outcome becomes, given the
\* position saved before the call.
rollback_if_false(rollback, r) ==
  IF r.res = "ok" /\ r.val = None
  THEN [r EXCEPT !.pos = rollback_to(rollback)]
  ELSE r

-----------------------------------------------------------------------------
(* AST nodes (src/dice_roller.py).  A child may hold None: the constructors *)
(* store whatever the parser passes.                                        *)

roller_constant(c) == [type |-> "roller_constant", c |-> c]

roller_die(count, die) == [type |-> "roller_die", c |-> count, d |-> die]

\* op names the lambda, n is the count it closes over (0 where it has none).
roller_unary_operator(inner, op, n, title) ==
  [type |-> "roller_unary_operator", i |-> inner, op |-> op, n |-> n,
   t |-> title]

roller_binary_op(lhs, rhs, op_str) ==
  [type |-> "roller_binary_op", l |-> lhs, r |-> rhs, op_str |-> op_str]

-----------------------------------------------------------------------------
(* roller_cursor: the grammar methods.                                     *)

KwMax == <<"m", "a", "x">>
KwMin == <<"m", "i", "n">>
KwSum == <<"s", "u", "m">>
Top == <<"t", "o", "p">>
Bottom == <<"b", "o", "t", "t", "o", "m">>
Count == <<"c", "o", "u", "n", "t">>

\* The keywords of accept_operator, in the order of its if/elif chain.
OperatorKeywords == <<KwMax, KwMin, KwSum, Top, Bottom, Count>>

\* The keywords followed by an integer.
CountedKeywords == {Top, Bottom, Count}

\* The punctuation of accept_roll, in the order of its if/elif chain, with
\* the op_str of the node each builds.
BinaryPunctuation == <<"+", "-", "*", "/", ",">>

BinaryOpStr ==
  << <<"S", "u", "m">>, <<"S", "u", "b", "t", "r", "a", "c", "t">>,
     <<"M", "u", "l", "t", "i", "p", "l", "y">>,
     <<"D", "i", "v", "i", "d", "e">>, <<"C", "o", "n", "c", "a", "t">> >>

\* The if/elif chain of accept_keyword calls from the i-th keyword on: the
\* first call that returns true or raises, with the index of its keyword
\* (k = 0 when every call returned false).
RECURSIVE keyword_chain(_, _, _)
keyword_chain(text, p, i) ==
  IF i > Len(OperatorKeywords) THEN [k |-> 0, r |-> Return(Bool(FALSE), p)]
  ELSE LET r == accept_keyword(text, p, OperatorKeywords[i]) IN
       IF r.res # "ok" \/ r.val.b THEN [k |-> i, r |-> r]
       ELSE keyword_chain(text, p, i + 1)

\* The if/elif chain of accept_punctuation calls of accept_roll: the index
\* of the first punctuation accepted and the position after it (k = 0 when
\* none is accepted).
RECURSIVE punctuation_chain(_, _, _)
punctuation_chain(text, p, i) ==
  IF i > Len(BinaryPunctuation) THEN [k |-> 0, pos |-> p]
  ELSE LET r == accept_punctuation(text, p, <<BinaryPunctuation[i]>>) IN
       IF r.val.b THEN [k |-> i, pos |-> r.pos]
       ELSE punctuation_chain(text, p, i + 1)

\* op_name of the unary node for a keyword and its count.
op_name(keyword, count) ==
  IF keyword \in CountedKeywords
  THEN keyword \o <<" ">> \o format_int(count)
  ELSE keyword

\* self.<method>() on a roller_cursor over text at position p: the grammar
\* methods call one another through the object.
RECURSIVE call_method(_, _, _)

accept_value(text, p) == call_method("accept_value", text, p)

accept_operator(text, p) == call_method("accept_operator", text, p)

accept_roll(text, p) == call_method("accept_roll", text, p)

expect_roll(text, p) == call_method("expect_roll", text, p)

\* The body of accept_value, before the decorator.
accept_value_body(text, p) ==
  LET paren == accept_punctuation(text, p, <<"(">>) IN
  IF paren.val.b
  THEN LET roll == accept_roll(text, paren.pos) IN
       IF roll.res # "ok" THEN roll
       ELSE LET close == expect_punctuation(text, roll.pos, <<")">>) IN
            IF close.res # "ok" THEN close
            ELSE Return(roll.val, close.pos)
  ELSE LET count == accept_regex_str(text, p, "int_regex") IN
       IF count.val = None THEN Return(None, count.pos)
       ELSE LET d == accept_punctuation(text, count.pos, <<"d">>) IN
            IF d.val.b
            THEN LET die == expect_regex_str(text, d.pos, "int_regex",
                                             "expected integer") IN
                 IF die.res # "ok" THEN die
                 ELSE Return(roller_die(int(count.val.s), int(die.val.s)),
                             die.pos)
            ELSE Return(roller_constant(int(count.val.s)), d.pos)

\* The body of accept_operator, before the decorator.
accept_operator_body(text, p) ==
  LET kw == keyword_chain(text, p, 1) IN
  IF kw.r.res # "ok" THEN kw.r
  ELSE IF kw.k = 0 THEN accept_value(text, kw.r.pos)
  ELSE LET keyword == OperatorKeywords[kw.k]
           count == IF keyword \in CountedKeywords
                    THEN expect_regex_str(text, kw.r.pos, "int_regex",
                                          "expected integer")
                    ELSE Return(Str(<<"0">>), kw.r.pos)
       IN IF count.res # "ok" THEN count
          ELSE LET value == accept_value(text, count.pos) IN
               IF value.res # "ok" THEN value
               ELSE IF value.val = None THEN Return(None, value.pos)
               ELSE Return(roller_unary_operator(
                             value.val, keyword, int(count.val.s),
                             op_name(keyword, int(count.val.s))),
                           value.pos)

\* accept_roll taking one operator, not a whole roll, as right operand.
accept_roll_body_one_operand(text, p) ==
  LET op1 == accept_operator(text, p) IN
  IF op1.res # "ok" THEN op1
  ELSE LET punct == punctuation_chain(text, op1.pos, 1) IN
       IF punct.k = 0 THEN Return(op1.val, punct.pos)
       ELSE LET op2 == accept_operator(text, punct.pos) IN
            IF op2.res # "ok" THEN op2
            ELSE IF op2.val = None
                 THEN ParserError("expected a roll", op2.pos)
            ELSE Return(roller_binary_op(op1.val, op2.val,
                                         BinaryOpStr[punct.k]),
                        op2.pos)

\* The body of accept_roll, before the decorator.
accept_roll_body(text, p) ==
  LET op1 == accept_operator(text, p) IN
  IF op1.res # "ok" THEN op1
  ELSE LET punct == punctuation_chain(text, op1.pos, 1) IN
       IF punct.k = 0 THEN Return(op1.val, punct.pos)
       ELSE LET op2 == expect_roll(text, punct.pos) IN
            IF op2.res # "ok" THEN op2
            ELSE Return(roller_binary_op(op1.val, op2.val,
                                         BinaryOpStr[punct.k]),
                        op2.pos)

expect_roll_body(text, p) ==
  LET roll == accept_roll(text, p) IN
  IF roll.res # "ok" THEN roll
  ELSE IF roll.val = None THEN ParserError("expected a roll", roll.pos)
  ELSE roll

\* The methods as defined in the class: accept_value, accept_operator and
\* accept_roll are decorated with @rollback_if_false.
call_method(method, text, p) ==
  CASE method = "accept_value" ->
         rollback_if_false(set_rollback(p), accept_value_body(text, p))
    [] method = "accept_operator" ->
         rollback_if_false(set_rollback(p), accept_operator_body(text, p))
    [] method = "accept_roll" ->
         rollback_if_false(set_rollback(p), accept_roll_body(text, p))
    [] method = "expect_roll" -> expect_roll_body(text, p)

\* expect_line without the check of what follows the roll.
expect_line_unchecked(text, p) ==
  LET roll == expect_roll(text, p) IN
  IF roll.res # "ok" THEN roll
  ELSE Return(roll.val, set_eof(text))

expect_line(text, p) ==
  LET roll == expect_roll(text, p) IN
  IF roll.res # "ok" THEN roll
  ELSE IF ~at_eof(text, roll.pos)
          /\ ~accept_punctuation(text, roll.pos, <<";">>).val.b
       THEN ParserError("Failed to parse input", roll.pos)
       ELSE Return(roll.val, set_eof(text))

-----------------------------------------------------------------------------
(* Evaluation: roll().  Rolling dice draws from the randomness source, so  *)
(* roll() of a node is the set of outcomes it can have: a roll_result, or  *)
(* the exception raised.                                                    *)

roll_result(r, header, inner_results) ==
  [res |-> "ok", values |-> r, hdr |-> header, inner |-> inner_results]

\* roll() raised exc.
RollRaise(exc) ==
  [res |-> exc, values |-> <<>>, hdr |-> <<>>, inner |-> <<>>]

RECURSIVE sum(_)
sum(s) == IF Len(s) = 0 THEN 0 ELSE s[1] + sum(Tail(s))

\* s with x inserted before its first element greater than x.
RECURSIVE insert(_, _)
insert(s, x) ==
  IF Len(s) = 0 THEN <<x>>
  ELSE IF x <= s[1] THEN <<x>> \o s
  ELSE <<s[1]>> \o insert(Tail(s), x)

\* sorted(s): ascending.
RECURSIVE sorted(_)
sorted(s) == IF Len(s) = 0 THEN <<>> ELSE insert(sorted(Tail(s)), s[1])

SeqMax(s) == CHOOSE x \in {s[i] : i \in DOMAIN s} : \A j \in DOMAIN s : s[j] <= x

SeqMin(s) == CHOOSE x \in {s[i] : i \in DOMAIN s} : \A j \in DOMAIN s : x <= s[j]

Abs(a) == IF a < 0 THEN -a ELSE a

\* int(a / b) for b # 0: the quotient truncated towards zero.
int_div(a, b) ==
  IF (a < 0) = (b < 0) THEN Abs(a) \div Abs(b) ELSE -(Abs(a) \div Abs(b))

\* The lambda accept_operator binds for a keyword, applied to s: the list
\* it returns, as an outcome (max() and min() of no argument raise).
unary_op(op, count, s) ==
  CASE op = KwMax -> IF Len(s) = 0 THEN RollRaise("TypeError")
                     ELSE roll_result(<<IF Len(s) = 1 THEN s[1] ELSE SeqMax(s)>>,
                                      <<>>, <<>>)
    [] op = KwMin -> IF Len(s) = 0 THEN RollRaise("TypeError")
                     ELSE roll_result(<<IF Len(s) = 1 THEN s[1] ELSE SeqMin(s)>>,
                                      <<>>, <<>>)
    [] op = KwSum -> roll_result(<<sum(s)>>, <<>>, <<>>)
    [] op = Top -> roll_result(
                     IF count = 0 \/ count >= Len(s) THEN s
                     ELSE SubSeq(s, Len(s) - count + 1, Len(s)), <<>>, <<>>)
    [] op = Bottom -> roll_result(SubSeq(s, 1, Min(count, Len(s))), <<>>, <<>>)
    [] op = Count ->
         roll_result(<<Cardinality({i \in DOMAIN s : s[i] = count})>>,
                     <<>>, <<>>)

\* The lambda accept_roll binds for an op_str, applied to l and r.
binary_op(op_str, l, r) ==
  CASE op_str = BinaryOpStr[1] -> roll_result(<<sum(l) + sum(r)>>, <<>>, <<>>)
    [] op_str = BinaryOpStr[2] -> roll_result(<<sum(l) - sum(r)>>, <<>>, <<>>)
    [] op_str = BinaryOpStr[3] -> roll_result(<<sum(l) * sum(r)>>, <<>>, <<>>)
    [] op_str = BinaryOpStr[4] ->
         IF sum(r) = 0 THEN RollRaise("ZeroDivisionError")
         ELSE roll_result(<<int_div(sum(l), sum(r))>>, <<>>, <<>>)
    [] op_str = BinaryOpStr[5] -> roll_result(sorted(l \o r), <<>>, <<>>)

roller_constant_roll(node) ==
  {roll_result(<<node.c>>, <<"c", "o", "n", "s", "t">>, <<>>)}

\* roller_die.roll returning the faces in the order drawn.
roller_die_roll_unsorted(node) ==
  {roll_result(l, format_int(node.c) \o <<"d">> \o format_int(node.d), <<>>)
     : l \in [1..node.c -> 1..node.d]}

\* roller_die.roll drawing faces from 0 to d - 1.
roller_die_roll_from_zero(node) ==
  {roll_result(sorted(l), format_int(node.c) \o <<"d">> \o format_int(node.d),
               <<>>)
     : l \in [1..node.c -> 0..(node.d - 1)]}

\* One outcome for every list random.randint can produce.
roller_die_roll(node) ==
  {roll_result(sorted(l), format_int(node.c) \o <<"d">> \o format_int(node.d),
               <<>>)
     : l \in [1..node.c -> 1..node.d]}

RECURSIVE roll(_)

roller_unary_operator_roll(node) ==
  UNION {IF r.res # "ok" THEN {r}
         ELSE LET applied == unary_op(node.op, node.n, r.values) IN
              IF applied.res # "ok" THEN {applied}
              ELSE {roll_result(applied.values, node.t, <<r>>)}
           : r \in roll(node.i)}

roller_binary_op_roll(node) ==
  UNION {IF l.res # "ok" THEN {l}
         ELSE UNION {IF r.res # "ok" THEN {r}
                     ELSE LET applied == binary_op(node.op_str, l.values,
                                                   r.values) IN
                          IF applied.res # "ok" THEN {applied}
                          ELSE {roll_result(applied.values, node.op_str,
                                            <<l, r>>)}
                       : r \in roll(node.r)}
           : l \in roll(node.l)}

\* node.roll(); None has no attribute roll.
roll(node) ==
  CASE node.type = "roller_constant" -> roller_constant_roll(node)
    [] node.type = "roller_die" -> roller_die_roll(node)
    [] node.type = "roller_unary_operator" -> roller_unary_operator_roll(node)
    [] node.type = "roller_binary_op" -> roller_binary_op_roll(node)
    [] node.type = "None" -> {RollRaise("AttributeError")}

-----------------------------------------------------------------------------
(* The input lines.                                                        *)

\* "10-5-2"
Line_10_minus_5_minus_2 == <<"1", "0", "-", "5", "-", "2">>

\* "10/5/2"
Line_10_div_5_div_2 == <<"1", "0", "/", "5", "/", "2">>

\* "2*3+4"
Line_2_times_3_plus_4 == <<"2", "*", "3", "+", "4">>

\* "5/0"
Line_5_div_0 == <<"5", "/", "0">>

\* "5/(1-1)"
Line_5_div_1_minus_1 == <<"5", "/", "(", "1", "-", "1", ")">>

\* "2d6 + top3(4d10) * 2"
Line_top3_abutting ==
  <<"2", "d", "6", " ", "+", " ", "t", "o", "p", "3", "(", "4", "d", "1",
     "0", ")", " ", "*", " ", "2">>

\* "2d6 + top 3(4d10) * 2"
Line_top_3_spaced ==
  <<"2", "d", "6", " ", "+", " ", "t", "o", "p", " ", "3", "(", "4", "d",
     "1", "0", ")", " ", "*", " ", "2">>

\* "maximum"
Line_maximum == <<"m", "a", "x", "i", "m", "u", "m">>

\* "2d6 7"
Line_2d6_7 == <<"2", "d", "6", " ", "7">>

\* "2d"
Line_2d == <<"2", "d">>

\* "+5"
Line_plus_5 == <<"+", "5">>

\* "5+-3"
Line_5_plus_minus_3 == <<"5", "+", "-", "3">>

\* "(,5)"
Line_paren_comma_5 == <<"(", ",", "5", ")">>

\* "max +"
Line_max_plus == <<"m", "a", "x", " ", "+">>

\* "max()"
Line_max_parens == <<"m", "a", "x", "(", ")">>

\* "top 2 (1,2,3,4)"
Line_top_2_of_4 ==
  <<"t", "o", "p", " ", "2", " ", "(", "1", ",", "2", ",", "3", ",", "4",
     ")">>

\* "bottom 2 (1,2,3,4)"
Line_bottom_2_of_4 ==
  <<"b", "o", "t", "t", "o", "m", " ", "2", " ", "(", "1", ",", "2", ",",
     "3", ",", "4", ")">>

\* "count 2 (1,2,3,4)"
Line_count_2_of_4 ==
  <<"c", "o", "u", "n", "t", " ", "2", " ", "(", "1", ",", "2", ",", "3",
     ",", "4", ")">>

\* "max(3,7,2)"
Line_max_of_3 == <<"m", "a", "x", "(", "3", ",", "7", ",", "2", ")">>

\* "min (3,7,2)"
Line_min_of_3 == <<"m", "i", "n", " ", "(", "3", ",", "7", ",", "2", ")">>

\* "sum 2d3 ; total"
Line_sum_of_dice ==
  <<"s", "u", "m", " ", "2", "d", "3", " ", ";", " ", "t", "o", "t", "a",
     "l">>

\* "count2 (1,2)"
Line_count2_abutting ==
  <<"c", "o", "u", "n", "t", "2", " ", "(", "1", ",", "2", ")">>

\* " 1 + 2 "
Line_padded == <<" ", "1", " ", "+", " ", "2", " ">>

Examples ==
  {Line_10_minus_5_minus_2, Line_10_div_5_div_2, Line_2_times_3_plus_4,
   Line_5_div_0, Line_5_div_1_minus_1, Line_top3_abutting,
   Line_top_3_spaced, Line_maximum, Line_2d6_7, Line_2d, Line_plus_5,
   Line_5_plus_minus_3, Line_paren_comma_5, Line_max_plus, Line_max_parens,
   Line_top_2_of_4, Line_bottom_2_of_4, Line_count_2_of_4, Line_max_of_3,
   Line_min_of_3, Line_sum_of_dice, Line_count2_abutting, Line_padded}

\* The tokens the enumerated parser lines are made of.
Tokens ==
  {<<"1">>, <<"2">>, <<"d">>, <<"(">>, <<")">>, <<"+">>, <<",">>, <<";">>,
   <<" ">>, KwMax, Top}

\* Every concatenation of at most n tokens.
RECURSIVE TokenLines(_)
TokenLines(n) ==
  IF n = 0 THEN {<<>>}
  ELSE LET shorter == TokenLines(n - 1) IN
       shorter \cup {t \o l : t \in Tokens, l \in shorter}

\* Unparenthesised chains of n single-digit constants joined by binary
\* operators.
ChainOperands == {"2", "7"}

RECURSIVE ChainLines(_)
ChainLines(n) ==
  IF n = 1 THEN {<<a>> : a \in ChainOperands}
  ELSE {<<a, BinaryPunctuation[k]>> \o rest :
          a \in ChainOperands, k \in DOMAIN BinaryPunctuation,
          rest \in ChainLines(n - 1)}

\* "{C}d{S}"
DiceLine(c, s) == format_int(c) \o <<"d">> \o format_int(s)

\* base^exp, or cap + 1 when that exceeds cap.
RECURSIVE CappedPower(_, _, _)
CappedPower(base, exp, cap) ==
  IF exp = 0 THEN 1
  ELSE Min(cap + 1, base * CappedPower(base, exp - 1, cap))

\* The dice terms whose rolls the model enumerates: C dice of S sides have
\* S^C lists of faces.
DicePairs ==
  {cs \in (1..MaxOutcomes) \X (1..MaxOutcomes) :
     CappedPower(cs[2], cs[1], MaxOutcomes) <= MaxOutcomes}

DiceLines == {DiceLine(cs[1], cs[2]) : cs \in DicePairs}

\* Operands for top N and bottom N: one of each kind of node.
OperandTexts ==
  { <<"5">>,
    <<"2", "d", "3">>,
    <<"(", "3", ",", "1", ",", "2", ")">>,
    <<"(", "2", "d", "2", ",", "1", "d", "3", ")">>,
    <<"(", "4", "-", "1", ")">>,
    <<"(", "m", "a", "x", " ", "(", "2", ",", "1", ")", ")">>,
    <<"(", "t", "o", "p", " ", "2", " ", "(", "3", ",", "1", ",", "2", ")",
      ")">>,
    <<"(", "b", "o", "t", "t", "o", "m", " ", "2", " ", "2", "d", "3", ",",
      "2", ")">> }

CountedLines ==
  {kw \o <<" ">> \o format_int(n) \o <<" ">> \o operand :
     kw \in {Top, Bottom}, n \in 1..MaxN, operand \in OperandTexts}

Lines ==
  Examples \cup TokenLines(MaxTokens)
    \cup UNION {ChainLines(n) : n \in 1..MaxChain}
    \cup DiceLines \cup CountedLines

\* The tokens the enumerated cursor texts are made of.
CursorTokens == {KwMax, <<"i">>, <<"1">>, <<" ">>, <<"\n">>, <<"(">>}

RECURSIVE CursorTexts(_)
CursorTexts(n) ==
  IF n = 0 THEN {<<>>}
  ELSE LET shorter == CursorTexts(n - 1) IN
       shorter \cup {t \o l : t \in CursorTokens, l \in shorter}

\* The arguments the cursor's methods are called with.
KeywordArgs == {KwMax, KwMin}
PunctuationArgs == {<<"(">>, <<"m">>}
RegexArgs == {"int_regex"}

-----------------------------------------------------------------------------
(* The state machine.                                                      *)

NoResult == [res |-> "none", values |-> <<>>, hdr |-> <<>>, inner |-> <<>>]

\* A fresh cursor over text, nothing parsed or rolled.
Construct(text) ==
  /\ contents = text
  /\ pos = cursor_init(text)
  /\ mark = -1
  /\ last = [op |-> "cursor", arg |-> <<>>, pre |-> 0,
             out |-> Return(None, cursor_init(text))]
  /\ roller = None
  /\ result = NoResult
  /\ prev = NoResult
  /\ nrolls = 0

\* c = roller_cursor(line)
Init == \E line \in Lines : Construct(line)

\* c = cursor(contents)
InitCursor == \E text \in CursorTexts(MaxCursorTokens) : Construct(text)

\* The cursor is in use: no call on it has raised, and the REPL has not yet
\* taken a tree from it.
Live == last.out.res = "ok" /\ roller = None

\* A call op(arg) on the cursor with outcome out.
Call(op, arg, out) ==
  /\ Live
  /\ pos' = out.pos
  /\ last' = [op |-> op, arg |-> arg, pre |-> pos, out |-> out]

AcceptKeyword ==
  \E k \in KeywordArgs :
    /\ Call("accept_keyword", k, accept_keyword(contents, pos, k))
    /\ UNCHANGED <<contents, mark, roller, result, prev, nrolls>>

AcceptPunctuation ==
  \E s \in PunctuationArgs :
    /\ Call("accept_punctuation", s, accept_punctuation(contents, pos, s))
    /\ UNCHANGED <<contents, mark, roller, result, prev, nrolls>>

AcceptRegex ==
  \E r \in RegexArgs :
    /\ Call("accept_regex", r, accept_regex(contents, pos, r))
    /\ UNCHANGED <<contents, mark, roller, result, prev, nrolls>>

AcceptRegexStr ==
  \E r \in RegexArgs :
    /\ Call("accept_regex_str", r, accept_regex_str(contents, pos, r))
    /\ UNCHANGED <<contents, mark, roller, result, prev, nrolls>>

ExpectKeyword ==
  \E k \in KeywordArgs :
    /\ Call("expect_keyword", k, expect_keyword(contents, pos, k))
    /\ UNCHANGED <<contents, mark, roller, result, prev, nrolls>>

ExpectPunctuation ==
  \E s \in PunctuationArgs :
    /\ Call("expect_punctuation", s, expect_punctuation(contents, pos, s))
    /\ UNCHANGED <<contents, mark, roller, result, prev, nrolls>>

ExpectRegex ==
  \E r \in RegexArgs :
    /\ Call("expect_regex", r, expect_regex(contents, pos, r, "expected regex"))
    /\ UNCHANGED <<contents, mark, roller, result, prev, nrolls>>

ExpectRegexStr ==
  \E r \in RegexArgs :
    /\ Call("expect_regex_str", r,
            expect_regex_str(contents, pos, r, "expected regex"))
    /\ UNCHANGED <<contents, mark, roller, result, prev, nrolls>>

ReadToNewline ==
  /\ Call("read_to_newline", <<>>, read_to_newline(contents, pos))
  /\ UNCHANGED <<contents, mark, roller, result, prev, nrolls>>

SetEof ==
  /\ Call("set_eof", <<>>, Return(None, set_eof(contents)))
  /\ UNCHANGED <<contents, mark, roller, result, prev, nrolls>>

SetRollback ==
  /\ Call("set_rollback", <<>>, Return(None, pos))
  /\ mark' = set_rollback(pos)
  /\ UNCHANGED <<contents, roller, result, prev, nrolls>>

\* rollback_to with a mark set_rollback returned.
RollbackTo ==
  /\ mark # -1
  /\ Call("rollback_to", <<>>, Return(None, rollback_to(mark)))
  /\ UNCHANGED <<contents, mark, roller, result, prev, nrolls>>

AcceptValue ==
  /\ Call("accept_value", <<>>, accept_value(contents, pos))
  /\ UNCHANGED <<contents, mark, roller, result, prev, nrolls>>

AcceptOperator ==
  /\ Call("accept_operator", <<>>, accept_operator(contents, pos))
  /\ UNCHANGED <<contents, mark, roller, result, prev, nrolls>>

AcceptRoll ==
  /\ Call("accept_roll", <<>>, accept_roll(contents, pos))
  /\ UNCHANGED <<contents, mark, roller, result, prev, nrolls>>

ExpectRoll ==
  /\ Call("expect_roll", <<>>, expect_roll(contents, pos))
  /\ UNCHANGED <<contents, mark, roller, result, prev, nrolls>>

\* roller = c.expect_line()
ExpectLine ==
  /\ Call("expect_line", <<>>, expect_line(contents, pos))
  /\ roller' = expect_line(contents, pos).val
  /\ UNCHANGED <<contents, mark, result, prev, nrolls>>

\* The number of lists of faces the dice of a tree can show, or
\* MaxOutcomes + 1 when that exceeds MaxOutcomes.
RECURSIVE Outcomes(_)
Outcomes(node) ==
  CASE node.type = "roller_die" -> CappedPower(node.d, node.c, MaxOutcomes)
    [] node.type = "roller_unary_operator" -> Outcomes(node.i)
    [] node.type = "roller_binary_op" ->
         Min(MaxOutcomes + 1, Outcomes(node.l) * Outcomes(node.r))
    [] OTHER -> 1

\* result = roller.roll(), for the trees whose dice the model enumerates;
\* a roll that raised ends the program.
Roll ==
  /\ roller # None
  /\ result.res \in {"none", "ok"}
  /\ nrolls < MaxRolls
  /\ Outcomes(roller) <= MaxOutcomes
  /\ \E r \in roll(roller) :
       /\ result' = r
       /\ prev' = result
       /\ nrolls' = nrolls + 1
  /\ UNCHANGED <<contents, pos, mark, last, roller>>

\* The parser and the evaluator: roller_cursor's methods, then roll().
Next ==
  \/ AcceptValue
  \/ AcceptOperator
  \/ AcceptRoll
  \/ ExpectRoll
  \/ ExpectLine
  \/ Roll

Spec == Init /\ [][Next]_vars

\* The cursor's own methods, called in any order.
NextCursor ==
  \/ AcceptKeyword
  \/ AcceptPunctuation
  \/ AcceptRegex
  \/ AcceptRegexStr
  \/ ExpectKeyword
  \/ ExpectPunctuation
  \/ ExpectRegex
  \/ ExpectRegexStr
  \/ ReadToNewline
  \/ SetEof
  \/ SetRollback
  \/ RollbackTo

SpecCursor == InitCursor /\ [][NextCursor]_vars

-----------------------------------------------------------------------------
(* Vocabulary of the properties.                                           *)

\* expect_line has just been called on a fresh cursor over line.
Parsed(line) ==
  /\ contents = line
  /\ last.op = "expect_line"
  /\ last.pre = cursor_init(line)

IsNode(v) ==
  v.type \in {"roller_constant", "roller_die", "roller_unary_operator",
              "roller_binary_op"}

\* Every binary node has two nodes as children and every unary node one.
RECURSIVE WellFormed(_)
WellFormed(node) ==
  CASE node.type = "roller_unary_operator" ->
         IsNode(node.i) /\ WellFormed(node.i)
    [] node.type = "roller_binary_op" ->
         /\ IsNode(node.l) /\ IsNode(node.r)
         /\ WellFormed(node.l) /\ WellFormed(node.r)
    [] OTHER -> IsNode(node)

Ascending(s) == \A i \in 1..(Len(s) - 1) : s[i] <= s[i + 1]

Sum == BinaryOpStr[1]
Subtract == BinaryOpStr[2]
Multiply == BinaryOpStr[3]
Divide == BinaryOpStr[4]
Concat == BinaryOpStr[5]

-----------------------------------------------------------------------------
\* C1: whenever expect_line returns a node, the tree is well-formed (every
\* binary node has a left and a right child, every unary node an operand),
\* so that rolling it can fail only with division by zero; a line that starts
\* with a binary operator is rejected instead.
C1_ReturnedTreeIsWellFormed ==
  /\ (last.op = "expect_line" /\ last.out.res = "ok")
       => WellFormed(last.out.val)
  /\ result.res \in {"none", "ok", "ZeroDivisionError"}

-----------------------------------------------------------------------------
\* The text at position p is word, followed by no identifier character.
KeywordAt(text, p, word) ==
  /\ p + Len(word) <= Len(text)
  /\ SubSeq(text, p + 1, p + Len(word)) = word
  /\ (p + Len(word) < Len(text)
        => text[p + Len(word) + 1] \notin identifier_chars)

\* C2: accept_keyword(word) returns true and advances past word and the
\* whitespace after it exactly when the text at the position is word and
\* the character after it, if there is one, is no identifier character (at
\* end-of-input it returns true without faulting); in every other case it
\* returns false and leaves the position unchanged.
C2_AcceptKeyword ==
  last.op = "accept_keyword" =>
    /\ last.out.res = "ok"
    /\ last.out.val.b = KeywordAt(contents, last.pre, last.arg)
    /\ pos = IF KeywordAt(contents, last.pre, last.arg)
             THEN advance_to_non_whitespace(contents,
                                            last.pre + Len(last.arg))
             ELSE last.pre

-----------------------------------------------------------------------------
\* A Divide node is in the tree.
RECURSIVE HasDivide(_)
HasDivide(node) ==
  CASE node.type = "roller_unary_operator" -> HasDivide(node.i)
    [] node.type = "roller_binary_op" ->
         node.op_str = Divide \/ HasDivide(node.l) \/ HasDivide(node.r)
    [] OTHER -> FALSE

\* C3 as stated: "5/0" parses to Divide(5, 0), and evaluating it fails with
\* division by zero.
C3_FiveOverZeroParses ==
  Parsed(Line_5_div_0) =>
    /\ last.out.res = "ok"
    /\ last.out.val = roller_binary_op(roller_constant(5), roller_constant(0),
                                       Divide)
    /\ nrolls > 0 => result.res = "ZeroDivisionError"

\* C3 amended: "5/0" is rejected by the parser, 0 being no INT, with a
\* ParserError 'expected a roll' at offset 2; division by zero is the failure
\* of evaluating a Divide whose right operand sums to zero, as "5/(1-1)",
\* which parses to Divide(5, Subtract(1, 1)) and whose roll raises
\* ZeroDivisionError; no roll without a Divide node raises it, and a Divide
\* that returned had a right operand of sum other than zero.
C3_DivisionByZero ==
  /\ Parsed(Line_5_div_0) =>
       /\ last.out = ParserError("expected a roll", 2)
       /\ roller = None
  /\ Parsed(Line_5_div_1_minus_1) =>
       /\ last.out.res = "ok"
       /\ roller = roller_binary_op(
                     roller_constant(5),
                     roller_binary_op(roller_constant(1), roller_constant(1),
                                      Subtract),
                     Divide)
       /\ nrolls > 0 => result.res = "ZeroDivisionError"
  /\ result.res = "ZeroDivisionError" => HasDivide(roller)
  /\ (result.res = "ok" /\ result.hdr = Divide)
       => sum(result.inner[2].values) # 0

C3_FiveOverZeroRejected ==
  Parsed(Line_5_div_0) /\ last.out.res = "ParserError"

-----------------------------------------------------------------------------
\* The text is digit (op digit)*: an unparenthesised chain of constants.
IsChain(text) ==
  /\ Len(text) % 2 = 1
  /\ \A i \in DOMAIN text :
       IF i % 2 = 1 THEN text[i] \in DigitChars \ {"0"}
       ELSE \E k \in DOMAIN BinaryPunctuation : text[i] = BinaryPunctuation[k]

\* The tree of a chain grouped from the right: a op (the rest).
RECURSIVE RightNested(_)
RightNested(text) ==
  IF Len(text) = 1 THEN roller_constant(DigitValue(text[1]))
  ELSE roller_binary_op(
         roller_constant(DigitValue(text[1])),
         RightNested(SubSeq(text, 3, Len(text))),
         BinaryOpStr[CHOOSE k \in DOMAIN BinaryPunctuation :
                       text[2] = BinaryPunctuation[k]])

\* C4: binary operators are right-associative with no precedence: a chain
\* a op1 b op2 c parses to BinaryOp(op1, a, BinaryOp(op2, b, c)); "10-5-2"
\* evaluates to 7, "10/5/2" to 10/(5/2) = 5 and "2*3+4" to 2*(3+4) = 14.
C4_RightAssociative ==
  /\ (last.op = "expect_line" /\ last.pre = 0 /\ IsChain(contents)) =>
       /\ last.out.res = "ok"
       /\ last.out.val = RightNested(contents)
  /\ Parsed(Line_10_minus_5_minus_2) =>
       /\ roller = roller_binary_op(
                     roller_constant(10),
                     roller_binary_op(roller_constant(5), roller_constant(2),
                                      Subtract),
                     Subtract)
       /\ nrolls > 0 => result.res = "ok" /\ result.values = <<7>>
  /\ Parsed(Line_10_div_5_div_2) =>
       /\ roller = roller_binary_op(
                     roller_constant(10),
                     roller_binary_op(roller_constant(5), roller_constant(2),
                                      Divide),
                     Divide)
       /\ nrolls > 0 => result.res = "ok" /\ result.values = <<5>>
  /\ Parsed(Line_2_times_3_plus_4) =>
       /\ roller = RightNested(Line_2_times_3_plus_4)
       /\ nrolls > 0 => result.res = "ok" /\ result.values = <<14>>

C4_TenMinusFiveMinusTwoIsSeven ==
  Parsed(Line_10_minus_5_minus_2) /\ nrolls > 0 /\ result.values = <<7>>

-----------------------------------------------------------------------------
\* How often x occurs among the elements of s at the indices in I.
Occurrences(s, I, x) == Cardinality({i \in I : s[i] = x})

\* v holds, in ascending order, n elements of s (all of them when s has
\* fewer) that are at least (largest) or at most (smallest) every other
\* element of s.
Selects(v, s, n, largest) ==
  /\ Ascending(v)
  /\ Len(v) = Min(n, Len(s))
  /\ \E I \in SUBSET DOMAIN s :
       /\ Cardinality(I) = Len(v)
       /\ \A x \in {s[i] : i \in DOMAIN s} \cup {v[i] : i \in DOMAIN v} :
            Occurrences(v, DOMAIN v, x) = Occurrences(s, I, x)
       /\ \A i \in I, j \in DOMAIN s \ I :
            IF largest THEN s[j] <= s[i] ELSE s[i] <= s[j]

\* Every result of the tree has values, in ascending order.
RECURSIVE AllAscending(_)
AllAscending(r) ==
  /\ Len(r.values) > 0
  /\ Ascending(r.values)
  /\ \A i \in DOMAIN r.inner : AllAscending(r.inner[i])

\* Every top N and bottom N of the tree selected the N largest, the N
\* smallest values of its operand's result.
RECURSIVE TopBottomSelect(_, _)
TopBottomSelect(node, r) ==
  CASE node.type = "roller_unary_operator" ->
         /\ TopBottomSelect(node.i, r.inner[1])
         /\ node.op = Top =>
              Selects(r.values, r.inner[1].values, node.n, TRUE)
         /\ node.op = Bottom =>
              Selects(r.values, r.inner[1].values, node.n, FALSE)
    [] node.type = "roller_binary_op" ->
         /\ TopBottomSelect(node.l, r.inner[1])
         /\ TopBottomSelect(node.r, r.inner[2])
    [] OTHER -> TRUE

\* C5: top N returns exactly the N largest values of its operand and
\* bottom N the N smallest, in ascending order, and the whole sequence when
\* N exceeds its length; every roll result has a non-empty, ascending
\* sequence of values.
C5_TopBottom ==
  (nrolls > 0 /\ result.res = "ok") =>
    /\ AllAscending(result)
    /\ TopBottomSelect(roller, result)

C5_TopTwoOfFour ==
  /\ Parsed(Line_top_2_of_4)
  /\ nrolls > 0
  /\ result.values = <<3, 4>>
  /\ result.inner[1].values = <<1, 2, 3, 4>>

-----------------------------------------------------------------------------
\* r is a result of C dice of S sides.
DiceResult(r, c, s) ==
  /\ r.res = "ok"
  /\ Len(r.values) = c
  /\ \A i \in DOMAIN r.values : r.values[i] \in 1..s
  /\ Ascending(r.values)
  /\ r.hdr = DiceLine(c, s)
  /\ r.inner = <<>>

\* C6: the line "{C}d{S}" parses to a dice node, and every evaluation of it
\* yields C values in 1..S in ascending order, labelled "{C}d{S}", with no
\* child results; it can be evaluated again, with the same shape.
C6_DiceTerm ==
  last.op = "expect_line" =>
    \A cs \in DicePairs :
      Parsed(DiceLine(cs[1], cs[2])) =>
        /\ last.out.res = "ok"
        /\ roller = roller_die(cs[1], cs[2])
        /\ nrolls > 0 => DiceResult(result, cs[1], cs[2])
        /\ nrolls > 1 => DiceResult(prev, cs[1], cs[2])

C6_RolledTwiceDifferently ==
  /\ Parsed(DiceLine(1, 12))
  /\ nrolls = 2
  /\ prev.values = <<3>>
  /\ result.values = <<12>>

-----------------------------------------------------------------------------
\* C7: expect_line succeeds only when the cursor, after one roll, is at
\* end-of-input or at a ';', and then leaves it at end-of-input; when
\* anything else follows the roll it raises a ParserError at the offset of
\* the first unconsumed non-whitespace character ("2d6 7": offset 4) and
\* returns no tree.
C7_ExpectLine ==
  /\ last.op = "expect_line" =>
       LET after == expect_roll(contents, last.pre) IN
       /\ last.out.res = "ok" =>
            /\ pos = Len(contents)
            /\ after.res = "ok"
            /\ after.pos = Len(contents) \/ contents[after.pos + 1] = ";"
            /\ roller = after.val
       /\ (/\ after.res = "ok"
           /\ after.pos < Len(contents)
           /\ contents[after.pos + 1] # ";") =>
            /\ last.out.res = "ParserError"
            /\ last.out.epos = after.pos
            /\ ~IsSpace(contents[after.pos + 1])
            /\ roller = None
  /\ Parsed(Line_2d6_7) =>
       last.out = ParserError("Failed to parse input", 4)

C7_TrailingTokenRejected ==
  Parsed(Line_2d6_7) /\ last.out.res = "ParserError" /\ last.out.epos = 4

-----------------------------------------------------------------------------
\* Sum(2d6, Multiply(top 3 (4d10), 2))
TopExampleTree ==
  roller_binary_op(
    roller_die(2, 6),
    roller_binary_op(
      roller_unary_operator(roller_die(4, 10), Top, 3,
                            <<"t", "o", "p", " ", "3">>),
      roller_constant(2), Multiply),
    Sum)

\* C8 as stated: "2d6 + top3(4d10) * 2", the keyword written against its
\* integer, parses to Sum(2d6, Multiply(top 3 (4d10), 2)).
C8_AbuttingIntegerParses ==
  Parsed(Line_top3_abutting) =>
    last.out.res = "ok" /\ last.out.val = TopExampleTree

\* A counted keyword stands at position p with a digit right after it.
CountedKeywordAbutsDigit(text, p) ==
  \E kw \in CountedKeywords :
    /\ p + Len(kw) < Len(text)
    /\ SubSeq(text, p + 1, p + Len(kw)) = kw
    /\ text[p + Len(kw) + 1] \in DigitChars

\* C8 amended: a counted keyword must be separated from its integer: a
\* digit is an identifier character, so accept_operator finds no match at
\* 'top3', 'bottom3' or 'count3'; "2d6 + top3(4d10) * 2" is rejected with a
\* ParserError 'expected a roll' at offset 6, and "2d6 + top 3(4d10) * 2"
\* parses to Sum(2d6, Multiply(top 3 (4d10), 2)).
C8_CountedKeywordNeedsSeparator ==
  /\ Parsed(Line_top3_abutting) =>
       last.out = ParserError("expected a roll", 6)
  /\ Parsed(Line_top_3_spaced) =>
       last.out.res = "ok" /\ last.out.val = TopExampleTree
  /\ (/\ last.op = "accept_operator"
      /\ CountedKeywordAbutsDigit(contents, last.pre)) =>
       last.out = Return(None, last.pre)

C8_AbuttingIntegerRejected ==
  Parsed(Line_top3_abutting) /\ last.out.res = "ParserError"

-----------------------------------------------------------------------------
GrammarAccepts == {"accept_value", "accept_operator", "accept_roll"}

\* C9: when accept_value, accept_operator or accept_roll returns None the
\* position is the one before the call, whatever the call consumed; the
\* position has moved forward only when a node is returned; a ParserError
\* raised inside propagates without rollback and carries the offset where
\* it was raised.
C9_RollbackOnNoMatch ==
  last.op \in GrammarAccepts =>
    /\ (last.out.res = "ok" /\ last.out.val = None) => pos = last.pre
    /\ (last.out.res = "ok" /\ last.out.val # None) => pos > last.pre
    /\ last.out.res = "ParserError" =>
         /\ pos = last.out.epos
         /\ last.out.epos >= last.pre
    /\ (contents = Line_max_parens /\ last.pre = 0) =>
         last.out = Return(None, 0)

\* accept_operator on "max()" had consumed the keyword when accept_value
\* found no value, and the position is back at 0.
C9_RolledBackAfterConsuming ==
  /\ contents = Line_max_parens
  /\ last.op = "accept_operator"
  /\ last.out = Return(None, 0)
  /\ pos = 0
  /\ accept_operator_body(contents, 0).pos = 3

-----------------------------------------------------------------------------
CursorAccepts ==
  {"accept_keyword", "accept_punctuation", "accept_regex", "accept_regex_str"}

CursorExpects ==
  {"expect_keyword", "expect_punctuation", "expect_regex", "expect_regex_str"}

\* The call returned false or None.
Failed(out) == out.res = "ok" /\ (out.val = Bool(FALSE) \/ out.val = None)

\* C10: after construction and after any sequence of cursor operations the
\* position is in 0..length(text), at end-of-input or on a non-whitespace
\* character; an accept_* that fails leaves the position unchanged, and the
\* position in the ParserError of an expect_* is the position before the
\* call.
C10_PositionInvariant ==
  /\ pos \in 0..Len(contents)
  /\ pos = Len(contents) \/ ~IsSpace(contents[pos + 1])
  /\ (last.op \in CursorAccepts /\ Failed(last.out)) => pos = last.pre
  /\ (last.op \in CursorExpects /\ last.out.res = "ParserError") =>
       /\ last.out.epos = last.pre
       /\ last.out.epos \in 0..Len(contents)
       /\ pos = last.pre

\* read_to_newline moved past a line break, onto the text of the next line.
C10_SkippedPastNewline ==
  /\ last.op = "read_to_newline"
  /\ find_newline(contents, last.pre) # -1
  /\ pos > find_newline(contents, last.pre)
  /\ pos < Len(contents)

=============================================================================
